---- MODULE Spec2Model ----
(***************************************************************************)
(* GenNetta: the schema-analysis services (Supabase edge function, Node    *)
(* /Express service, ASP.NET controller) and the CodeGenerator component   *)
(* (template generation and project download), and the wizard that leads   *)
(* from the connection step to the generation step.                        *)
(*                                                                         *)
(* Strings are TLA+ strings; TLC evaluates Len, SubSeq and \o on them, so  *)
(* paths, connection strings and messages are modelled character by        *)
(* character.                                                              *)
(***************************************************************************)
EXTENDS Integers, Sequences, FiniteSets, TLC

VARIABLES
    \* ---- CodeGenerator component (src/src/components/CodeGenerator.tsx)
    selectedTables,      \* prop: the selection, a sequence of table names
    schema,              \* the current schema snapshot: the set of its table names
    isGenerating,        \* useState(false)
    generationProgress,  \* useState(0), in tenths of a percent (one tick = 125)
    generationComplete,  \* useState(false)
    generatedFiles,      \* useState([]): the names listed on completion
    toasts,              \* the toast titles shown so far
    zip,                 \* the archive of the last download: path -> content
    prevZip,             \* the archive of the download before it
    downloads,           \* number of downloads done
    \* ---- one analyze-schema request handled by one of the services
    service,             \* "edge" | "node" | "dotnet"
    req,                 \* the request: [method, body]
    pc,                  \* position of the handler
    config,              \* edge: the parsed ConnectionConfig
    conn,                \* "none" | "open" | "closed"
    opened,              \* number of connections opened
    connectAttempts,     \* number of attempts to open a connection
    closeCalls,          \* number of close / dispose calls on an opened connection
    closeFailed,         \* a close call raised
    queries,             \* number of queries issued
    tableNames,          \* node/dotnet: the enumerated table names
    tables,              \* the tables read so far
    err,                 \* the error being propagated: [isError, message]
    errorsRaised,        \* number of errors raised while handling
    responses,           \* the responses sent, in order
    respondAttempts,     \* number of attempts to send a response
    escaped,             \* an error left the handler uncaught
    \* ---- overlapping requests to the Node service (one process, one mssql module)
    globalPool,          \* mssql's global connection: the index of a pool, or 0
    pools,               \* the connection pools created so far
    handlers,            \* the state of each running handler
    \* ---- one call of parseConnectionString
    writtenPairs,        \* the key=value pairs of the descriptor, as written
    parsed,              \* <<>>, or the ConnectionConfig returned
    \* ---- the wizard (GenNettaApp, DatabaseConnection, SchemaExplorer)
    currentStep,         \* GenNettaApp: useState("connection")
    appConnectionString, \* GenNettaApp: connectionString, useState("")
    databaseSchema,      \* GenNettaApp: useState(null), the schema snapshot
    appSelectedTables,   \* GenNettaApp: selectedTables, useState([])
    typed,               \* DatabaseConnection: connectionString, useState("")
    isConnecting,        \* DatabaseConnection: useState(false)
    pendingConnects,     \* the descriptors of the connects whose timer is running
    explorerSelected,    \* SchemaExplorer: selectedTables
    connectsStarted,     \* number of connects started
    connectsDone,        \* number of connects that succeeded
    connectsAtProceed,   \* connectsDone when the selection was handed over
    sinceReset,          \* a reset happened and no connect has succeeded since
    tabsRefused          \* number of tab-change requests the wizard has refused

genVars == <<selectedTables, schema, isGenerating, generationProgress,
             generationComplete, generatedFiles, toasts, zip, prevZip, downloads>>

apiVars == <<service, req, pc, config, conn, opened, connectAttempts, closeCalls, closeFailed,
             queries, tableNames, tables, err, errorsRaised, responses,
             respondAttempts, escaped>>

poolVars == <<globalPool, pools, handlers>>

parseVars == <<writtenPairs, parsed>>

wizVars == <<currentStep, appConnectionString, databaseSchema, appSelectedTables,
             typed, isConnecting, pendingConnects, explorerSelected,
             connectsStarted, connectsDone, connectsAtProceed, sinceReset, tabsRefused>>

vars == <<genVars, apiVars, poolVars, parseVars, wizVars>>

\* what the component, a single request, the overlapping requests, a call
\* of the parser and the wizard leave alone
notGen == <<apiVars, poolVars, parseVars, wizVars>>
notApi == <<genVars, poolVars, parseVars, wizVars>>
notPool == <<genVars, apiVars, parseVars, wizVars>>
notParse == <<genVars, apiVars, poolVars, wizVars>>
notWiz == <<genVars, apiVars, poolVars, parseVars>>

-----------------------------------------------------------------------------
(* String primitives of the JavaScript runtime, as the code uses them.      *)

Char(s, i) == SubSeq(s, i, i)

UpperLetters == "ABCDEFGHIJKLMNOPQRSTUVWXYZ"
LowerLetters == "abcdefghijklmnopqrstuvwxyz"

\* String.prototype.toLowerCase, one character
LowerChar(c) ==
    IF \E i \in 1..Len(UpperLetters) : Char(UpperLetters, i) = c
    THEN Char(LowerLetters, CHOOSE i \in 1..Len(UpperLetters) : Char(UpperLetters, i) = c)
    ELSE c

RECURSIVE ToLowerCase(_)
ToLowerCase(s) ==
    IF Len(s) = 0 THEN "" ELSE LowerChar(Char(s, 1)) \o ToLowerCase(SubSeq(s, 2, Len(s)))

\* String.prototype.trim (the inputs hold no white space other than the blank)
RECURSIVE TrimStart(_)
TrimStart(s) ==
    IF Len(s) > 0 /\ Char(s, 1) = " " THEN TrimStart(SubSeq(s, 2, Len(s))) ELSE s

RECURSIVE TrimEnd(_)
TrimEnd(s) ==
    IF Len(s) > 0 /\ Char(s, Len(s)) = " " THEN TrimEnd(SubSeq(s, 1, Len(s) - 1)) ELSE s

Trim(s) == TrimEnd(TrimStart(s))

\* the least index >= from at which character c stands in s, or 0
RECURSIVE IndexOf(_, _, _)
IndexOf(s, c, from) ==
    IF from > Len(s) THEN 0
    ELSE IF Char(s, from) = c THEN from
    ELSE IndexOf(s, c, from + 1)

\* String.prototype.split on a one-character separator: every piece is kept
RECURSIVE Split(_, _)
Split(s, c) ==
    LET i == IndexOf(s, c, 1) IN
    IF i = 0 THEN <<s>>
    ELSE <<SubSeq(s, 1, i - 1)>> \o Split(SubSeq(s, i + 1, Len(s)), c)

\* String.prototype.includes
Includes(s, sub) ==
    \E i \in 1..(Len(s) - Len(sub) + 1) : SubSeq(s, i, i + Len(sub) - 1) = sub


-----------------------------------------------------------------------------
(* parseConnectionString and the password mask of the edge function.        *)

DefaultPort == 1433

\* An optional field that was never assigned (undefined) is "": the parser
\* never assigns an empty value (the !value guard).
EmptyConfig ==
    [server |-> "", database |-> "", username |-> "", password |-> "",
     trustedConnection |-> "undefined", port |-> DefaultPort]

\* .filter(pair => pair.trim())
RECURSIVE FilterNonBlank(_)
FilterNonBlank(pairs) ==
    IF Len(pairs) = 0 THEN <<>>
    ELSE (IF Trim(Head(pairs)) # "" THEN <<Head(pairs)>> ELSE <<>>)
         \o FilterNonBlank(Tail(pairs))

\* a variant of ParsePair whose switch reads key instead of key.toLowerCase()
ParsePairCaseSensitive(cfg, pair) ==
    LET parts == Split(pair, "=")
        key   == Trim(parts[1])
        value == IF Len(parts) >= 2 THEN Trim(parts[2]) ELSE ""
        v     == ToLowerCase(value)
    IN  IF key = "" \/ value = "" THEN cfg
        ELSE IF key \in {"server", "data source"} THEN [cfg EXCEPT !.server = value]
        ELSE IF key \in {"database", "initial catalog"} THEN [cfg EXCEPT !.database = value]
        ELSE IF key \in {"user id", "uid"} THEN [cfg EXCEPT !.username = value]
        ELSE IF key \in {"password", "pwd"} THEN [cfg EXCEPT !.password = value]
        ELSE IF key \in {"trusted_connection", "integrated security"}
             THEN [cfg EXCEPT !.trustedConnection =
                        IF v = "true" \/ v = "yes" THEN "true" ELSE "false"]
        ELSE cfg

\* a variant of ParsePair whose switch has a default label on the server case
ParsePairDefaultIsServer(cfg, pair) ==
    LET parts == Split(pair, "=")
        key   == Trim(parts[1])
        value == IF Len(parts) >= 2 THEN Trim(parts[2]) ELSE ""
        k     == ToLowerCase(key)
        v     == ToLowerCase(value)
    IN  IF key = "" \/ value = "" THEN cfg
        ELSE IF k \in {"database", "initial catalog"} THEN [cfg EXCEPT !.database = value]
        ELSE IF k \in {"user id", "uid"} THEN [cfg EXCEPT !.username = value]
        ELSE IF k \in {"password", "pwd"} THEN [cfg EXCEPT !.password = value]
        ELSE IF k \in {"trusted_connection", "integrated security"}
             THEN [cfg EXCEPT !.trustedConnection =
                        IF v = "true" \/ v = "yes" THEN "true" ELSE "false"]
        ELSE [cfg EXCEPT !.server = value]

\* one iteration of the for loop: split at "=", trim, switch on the lowered key
ParsePair(cfg, pair) ==
    LET parts == Split(pair, "=")
        key   == Trim(parts[1])
        value == IF Len(parts) >= 2 THEN Trim(parts[2]) ELSE ""
        k     == ToLowerCase(key)
        v     == ToLowerCase(value)
    IN  IF key = "" \/ value = "" THEN cfg
        ELSE IF k \in {"server", "data source"} THEN [cfg EXCEPT !.server = value]
        ELSE IF k \in {"database", "initial catalog"} THEN [cfg EXCEPT !.database = value]
        ELSE IF k \in {"user id", "uid"} THEN [cfg EXCEPT !.username = value]
        ELSE IF k \in {"password", "pwd"} THEN [cfg EXCEPT !.password = value]
        ELSE IF k \in {"trusted_connection", "integrated security"}
             THEN [cfg EXCEPT !.trustedConnection =
                        IF v = "true" \/ v = "yes" THEN "true" ELSE "false"]
        ELSE cfg

RECURSIVE ParsePairs(_, _)
ParsePairs(cfg, pairs) ==
    IF Len(pairs) = 0 THEN cfg
    ELSE ParsePairs(ParsePair(cfg, Head(pairs)), Tail(pairs))

parseConnectionString(connectionString) ==
    ParsePairs(EmptyConfig, FilterNonBlank(Split(connectionString, ";")))

\* /Password=[^;]+/i matches at i: the nine characters, then at least one
\* character that is not ";"
PasswordRegexAt(s, i) ==
    /\ i + 9 <= Len(s)
    /\ ToLowerCase(SubSeq(s, i, i + 8)) = "password="
    /\ Char(s, i + 9) # ";"

\* the end of the greedy [^;]+ that starts at index from
MatchEnd(s, from) ==
    LET j == IndexOf(s, ";", from) IN IF j = 0 THEN Len(s) ELSE j - 1

\* connectionString.replace(/Password=[^;]+/i, 'Password=***'): no g flag,
\* so only the leftmost match is replaced
MaskConnectionString(s) ==
    IF \E i \in 1..Len(s) : PasswordRegexAt(s, i)
    THEN LET i == CHOOSE i \in 1..Len(s) :
                     /\ PasswordRegexAt(s, i)
                     /\ \A j \in 1..(i - 1) : ~PasswordRegexAt(s, j)
             e == MatchEnd(s, i + 9)
         IN  SubSeq(s, 1, i - 1) \o "Password=***" \o SubSeq(s, e + 1, Len(s))
    ELSE s

-----------------------------------------------------------------------------
(* The Template Generator: CodeGenerator.tsx, handleDownloadProject.        *)
(* A generated file is [kind, table, body]: the template it was made from,  *)
(* the table name substituted into it, and the lines of the template that   *)
(* vary with the input (all other text of a template is fixed).             *)

\* per-selection bounds of the model
MaxSel == 2
MaxDownloads == 2

\* table names a database may hold
TableUniverse == {"User", "Users", "Order", "Home", "ApplicationDbContext"}

Col(n, t, nullable, pk) == [name |-> n, type |-> t, nullable |-> nullable, primaryKey |-> pk]

\* the TableDefinition of each table: its columns in ordinal position
Columns(t) ==
    CASE t = "Users" -> << Col("Id", "int", FALSE, TRUE), Col("Email", "nvarchar", FALSE, FALSE) >>
      [] t = "User"  -> << Col("Id", "int", FALSE, TRUE), Col("Name", "nvarchar(100)", FALSE, FALSE),
                           Col("CreatedAt", "datetime2", FALSE, FALSE),
                           Col("UpdatedAt", "datetime2", TRUE, FALSE) >>
      [] t = "Order" -> << Col("Id", "int", FALSE, TRUE), Col("TotalAmount", "decimal(18,2)", FALSE, FALSE) >>
      [] OTHER       -> << Col("Id", "int", FALSE, TRUE) >>

\* Math.random().toString(36).substring(7).toUpperCase(): two of its values
RandomIds == {"K3J9X", "Q7ZP2"}

File(kind, table, body) == [kind |-> kind, table |-> table, body |-> body]

\* line 740
DbSetLine(table) == "        public DbSet<" \o table \o "> " \o table \o " { get; set; }"
\* lines 741-746
DbConfigLine(table) == "            modelBuilder.Entity<" \o table \o ">(entity =>"
\* lines 749-751
RepositoryRegistration(table) ==
    "builder.Services.AddScoped<I" \o table \o "Repository, " \o table \o "Repository>();"
\* line 799
ServiceRegistration(table) ==
    "builder.Services.AddScoped<I" \o table \o "Service, " \o table \o "Service>();"
\* lines 652-655
NavItem(table) ==
    "<a class=\"nav-link\" asp-controller=\"" \o table \o "\" asp-action=\"Index\">" \o table \o "s</a>"
\* lines 960-969
HomeCard(table) == "<a href=\"/" \o table \o "\" class=\"btn btn-primary\">View " \o table \o "s</a>"
\* line 1038
ReadmeItem(table) == "- " \o table

\* generateEntityModel: the property lines of the template (lines 111-119);
\* the template reads nothing but the table name
generateEntityModel(tableName) ==
    File("EntityModel", tableName,
         << "[Key] public int Id", "public string Name",
            "public DateTime CreatedAt", "public DateTime? UpdatedAt" >>)

generateRepository(tableName) == File("Repository", tableName, <<>>)
generateController(tableName) == File("ApiController", tableName, <<>>)
generateMvcController(tableName) == File("MvcController", tableName, <<>>)
generateIndexView(tableName) == File("IndexView", tableName, <<>>)
generateDetailsView(tableName) == File("DetailsView", tableName, <<>>)
generateCreateView(tableName) == File("CreateView", tableName, <<>>)
generateEditView(tableName) == File("EditView", tableName, <<>>)
generateDeleteView(tableName) == File("DeleteView", tableName, <<>>)
generateMicroservice(tableName) == File("Service", tableName, <<>>)
generateLayoutView(sel) == File("Layout", "", [i \in 1..Len(sel) |-> NavItem(sel[i])])

SolutionPath == "GenNettaApp.sln"
ProgramPath == "GenNettaApp/Program.cs"
DbContextPath == "GenNettaApp/Models/ApplicationDbContext.cs"
HomeControllerPath == "GenNettaApp/Controllers/HomeController.cs"
HomeIndexPath == "GenNettaApp/Views/Home/Index.cshtml"
ReadmePath == "README.md"
LayoutPath == "GenNettaApp/Views/Shared/_Layout.cshtml"

\* the object literal projectFiles (lines 754-1153)
SharedFiles(sel, rnd) ==
    (SolutionPath :> File("Solution", "", <<rnd>>))
    @@ ("GenNettaApp/GenNettaApp.csproj" :> File("Csproj", "", <<>>))
    @@ (ProgramPath :> File("Program", "",
            [i \in 1..Len(sel) |-> RepositoryRegistration(sel[i])] \o [i \in 1..Len(sel) |-> ServiceRegistration(sel[i])]))
    @@ (DbContextPath :> File("DbContext", "",
            [i \in 1..Len(sel) |-> DbSetLine(sel[i])] \o [i \in 1..Len(sel) |-> DbConfigLine(sel[i])]))
    @@ ("GenNettaApp/appsettings.json" :> File("AppSettings", "", <<>>))
    @@ ("GenNettaApp/appsettings.Development.json" :> File("AppSettingsDev", "", <<>>))
    @@ (HomeControllerPath :> File("HomeController", "", <<>>))
    @@ ("GenNettaApp/Views/_ViewStart.cshtml" :> File("ViewStart", "", <<>>))
    @@ ("GenNettaApp/Views/_ViewImports.cshtml" :> File("ViewImports", "", <<>>))
    @@ (HomeIndexPath :> File("HomeIndex", "", [i \in 1..Len(sel) |-> HomeCard(sel[i])]))
    @@ ("GenNettaApp/wwwroot/css/site.css" :> File("SiteCss", "", <<>>))
    @@ ("GenNettaApp/wwwroot/js/site.js" :> File("SiteJs", "", <<>>))
    @@ (ReadmePath :> File("Readme", "", [i \in 1..Len(sel) |-> ReadmeItem(sel[i])]))

\* the artifact kinds written for each table, in the order of lines 1157-1166
PerTableKinds ==
    << "EntityModel", "Repository", "ApiController", "MvcController", "IndexView",
       "DetailsView", "CreateView", "EditView", "DeleteView", "Service" >>

\* the key under which lines 1157-1166 store the artifact of a kind
TablePath(kind, tableName) ==
    CASE kind = "EntityModel"   -> "GenNettaApp/Models/" \o tableName \o ".cs"
      [] kind = "Repository"    -> "GenNettaApp/Repositories/" \o tableName \o "Repository.cs"
      [] kind = "ApiController" -> "GenNettaApp/Controllers/" \o tableName \o "sController.cs"
      [] kind = "MvcController" -> "GenNettaApp/Controllers/" \o tableName \o "Controller.cs"
      [] kind = "IndexView"     -> "GenNettaApp/Views/" \o tableName \o "/Index.cshtml"
      [] kind = "DetailsView"   -> "GenNettaApp/Views/" \o tableName \o "/Details.cshtml"
      [] kind = "CreateView"    -> "GenNettaApp/Views/" \o tableName \o "/Create.cshtml"
      [] kind = "EditView"      -> "GenNettaApp/Views/" \o tableName \o "/Edit.cshtml"
      [] kind = "DeleteView"    -> "GenNettaApp/Views/" \o tableName \o "/Delete.cshtml"
      [] kind = "Service"       -> "GenNettaApp/Services/" \o tableName \o "Service.cs"

\* the value lines 1157-1166 store for a kind
TableContent(kind, tableName) ==
    CASE kind = "EntityModel"   -> generateEntityModel(tableName)
      [] kind = "Repository"    -> generateRepository(tableName)
      [] kind = "ApiController" -> generateController(tableName)
      [] kind = "MvcController" -> generateMvcController(tableName)
      [] kind = "IndexView"     -> generateIndexView(tableName)
      [] kind = "DetailsView"   -> generateDetailsView(tableName)
      [] kind = "CreateView"    -> generateCreateView(tableName)
      [] kind = "EditView"      -> generateEditView(tableName)
      [] kind = "DeleteView"    -> generateDeleteView(tableName)
      [] kind = "Service"       -> generateMicroservice(tableName)

\* projectFiles[path] = content: an existing key keeps its place and takes
\* the new value
Assign(files, path, content) ==
    [p \in (DOMAIN files) \cup {path} |-> IF p = path THEN content ELSE files[p]]

\* the body of the forEach callback for one table, from artifact k on
RECURSIVE AddTableFiles(_, _, _)
AddTableFiles(files, tableName, k) ==
    IF k > Len(PerTableKinds) THEN files
    ELSE AddTableFiles(
             Assign(files, TablePath(PerTableKinds[k], tableName),
                    TableContent(PerTableKinds[k], tableName)),
             tableName, k + 1)

\* selectedTables.forEach(...) (lines 1156-1167), from table i on
RECURSIVE AddAllTables(_, _, _)
AddAllTables(files, sel, i) ==
    IF i > Len(sel) THEN files
    ELSE AddAllTables(AddTableFiles(files, sel[i], 1), sel, i + 1)

\* projectFiles as handed to zip.file (lines 754-1175)
BuildProjectFiles(sel, rnd) ==
    Assign(AddAllTables(SharedFiles(sel, rnd), sel, 1), LayoutPath, generateLayoutView(sel))

NoFiles == [p \in {} |-> File("", "", <<>>)]

\* the list shown on completion (lines 59-81)
TableFileNames(table) ==
    << "Models/" \o table \o ".cs",
       "Repositories/I" \o table \o "Repository.cs",
       "Repositories/" \o table \o "Repository.cs",
       "Controllers/" \o table \o "sController.cs",
       "Controllers/" \o table \o "Controller.cs",
       "Views/" \o table \o "/Index.cshtml",
       "Views/" \o table \o "/Details.cshtml",
       "Views/" \o table \o "/Create.cshtml",
       "Views/" \o table \o "/Edit.cshtml",
       "Views/" \o table \o "/Delete.cshtml",
       "Services/" \o table \o "Microservice.cs" >>

RECURSIVE ListedFiles(_, _)
ListedFiles(sel, i) ==
    IF i > Len(sel)
    THEN << "Models/ApplicationDbContext.cs", "Views/Shared/_Layout.cshtml",
            "Auth/GoogleOAuthConfig.cs", "Program.cs" >>
    ELSE TableFileNames(sel[i]) \o ListedFiles(sel, i + 1)

\* progress in tenths of a percent: one tick adds 12.5, the cap is 100
ProgressStep == 125
ProgressMax == 1000

Min(a, b) == IF a < b THEN a ELSE b

\* sequences of pairwise distinct table names, 1 to MaxSel long
Selections ==
    { s \in UNION { [1..n -> TableUniverse] : n \in 1..MaxSel } :
        \A i, j \in 1..Len(s) : i # j => s[i] # s[j] }

\* snapshots: the whole universe of tables, or all of it but one
Snapshots == { S \in SUBSET TableUniverse : Cardinality(S) >= Cardinality(TableUniverse) - 1 }

GenInit ==
    /\ selectedTables \in Selections
    /\ schema \in Snapshots
    /\ isGenerating = FALSE
    /\ generationProgress = 0
    /\ generationComplete = FALSE
    /\ generatedFiles = <<>>
    /\ toasts = <<>>
    /\ zip = NoFiles
    /\ prevZip = NoFiles
    /\ downloads = 0

\* handleStartGeneration (the button is rendered while neither flag is set)
handleStartGeneration ==
    /\ ~isGenerating /\ ~generationComplete
    /\ isGenerating' = TRUE
    /\ generationProgress' = 0
    /\ generationComplete' = FALSE
    /\ UNCHANGED <<selectedTables, schema, generatedFiles, toasts, zip, prevZip, downloads>>
    /\ UNCHANGED notGen

\* a variant of GenerationTick that leaves isGenerating set on completion
GenerationTickKeepsRunning ==
    /\ isGenerating
    /\ LET newProgress == Min(generationProgress + ProgressStep, ProgressMax) IN
       /\ generationProgress' = newProgress
       /\ IF newProgress < ProgressMax
          THEN UNCHANGED <<isGenerating, generationComplete, generatedFiles, toasts>>
          ELSE /\ generationComplete' = TRUE
               /\ UNCHANGED isGenerating
               /\ generatedFiles' = ListedFiles(selectedTables, 1)
               /\ toasts' = Append(toasts, "Code Generation Complete!")
    /\ UNCHANGED <<selectedTables, schema, zip, prevZip, downloads>>
    /\ UNCHANGED notGen

\* one firing of the interval set up by the effect (lines 45-94)
GenerationTick ==
    /\ isGenerating
    /\ LET newProgress == Min(generationProgress + ProgressStep, ProgressMax) IN
       /\ generationProgress' = newProgress
       /\ IF newProgress < ProgressMax
          THEN UNCHANGED <<isGenerating, generationComplete, generatedFiles, toasts>>
          ELSE /\ generationComplete' = TRUE
               /\ isGenerating' = FALSE
               /\ generatedFiles' = ListedFiles(selectedTables, 1)
               /\ toasts' = Append(toasts, "Code Generation Complete!")
    /\ UNCHANGED <<selectedTables, schema, zip, prevZip, downloads>>
    /\ UNCHANGED notGen

\* a variant of handleDownloadProject whose button is rendered at any time
handleDownloadProjectAnyTime ==
    /\ downloads < MaxDownloads
    /\ \E rnd \in RandomIds :
          zip' = BuildProjectFiles(selectedTables, rnd)
    /\ prevZip' = zip
    /\ downloads' = downloads + 1
    /\ toasts' = Append(toasts, "Download Complete!")
    /\ UNCHANGED <<selectedTables, schema, isGenerating, generationProgress,
                   generationComplete, generatedFiles>>
    /\ UNCHANGED notGen

\* handleDownloadProject (the button is rendered once generationComplete)
handleDownloadProject ==
    /\ generationComplete
    /\ downloads < MaxDownloads
    /\ \E rnd \in RandomIds :
          zip' = BuildProjectFiles(selectedTables, rnd)
    /\ prevZip' = zip
    /\ downloads' = downloads + 1
    /\ toasts' = Append(toasts, "Download Complete!")
    /\ UNCHANGED <<selectedTables, schema, isGenerating, generationProgress,
                   generationComplete, generatedFiles>>
    /\ UNCHANGED notGen

ApiIdle ==
    /\ service = "none" /\ req = "none" /\ pc = "idle" /\ config = EmptyConfig
    /\ conn = "none" /\ opened = 0 /\ connectAttempts = 0 /\ closeCalls = 0 /\ closeFailed = FALSE
    /\ queries = 0 /\ tableNames = <<>> /\ tables = <<>> /\ err = "none"
    /\ errorsRaised = 0 /\ responses = <<>> /\ respondAttempts = 0 /\ escaped = FALSE

\* no overlapping requests are running
PoolIdle == globalPool = 0 /\ pools = <<>> /\ handlers = <<>>

\* the parser is not being called
ParseIdle == writtenPairs = <<>> /\ parsed = <<>>

\* databaseSchema: null, or a snapshot with its tables' names in order
NoSchema == [present |-> FALSE, tables |-> <<>>]
Snapshot(tbls) == [present |-> TRUE, tables |-> tbls]

\* the state GenNettaApp and its children are constructed with
WizInit ==
    /\ currentStep = "connection"
    /\ appConnectionString = ""
    /\ databaseSchema = NoSchema
    /\ appSelectedTables = <<>>
    /\ typed = ""
    /\ isConnecting = FALSE
    /\ pendingConnects = <<>>
    /\ explorerSelected = <<>>
    /\ connectsStarted = 0
    /\ connectsDone = 0
    /\ connectsAtProceed = 0
    /\ sinceReset = FALSE
    /\ tabsRefused = 0

\* the wizard is not being used
WizIdle == WizInit

GenNext ==
    \/ handleStartGeneration
    \/ GenerationTick
    \/ handleDownloadProject

\* the state when the component is mounted: no request is involved
GenStart == GenInit /\ ApiIdle /\ PoolIdle /\ ParseIdle /\ WizIdle

SpecGen == GenStart /\ [][GenNext]_vars

-----------------------------------------------------------------------------
(* Claims about the Template Generator, checked under SpecGen.              *)

\* the files of the archive made from template kind for table t
\* the interval of the effect keeps firing while isGenerating is set
SpecGenFair == GenStart /\ [][GenNext]_vars /\ WF_vars(GenerationTick)

\* the number of files the completion toast announces (line 85)
AnnouncedFileCount(sel) == Len(sel) * 8

FilesOf(archive, kind, t) ==
    { p \in DOMAIN archive : archive[p].kind = kind /\ archive[p].table = t }

\* C1: running handleDownloadProject twice on the same selection yields the
\* same set of paths with identical content for every path, the solution
\* file included.
C1_DownloadDeterministic ==
    downloads = 2 => zip = prevZip

\* C3: for pairwise distinct table names the archive holds, for every selected
\* table, each of its per-table artifacts under that artifact's path, with
\* the content generated for that table.
C3_PerTableArtifactsKept ==
    downloads >= 1 =>
        \A i \in 1..Len(selectedTables) : \A k \in 1..Len(PerTableKinds) :
            LET p == TablePath(PerTableKinds[k], selectedTables[i]) IN
            /\ p \in DOMAIN zip
            /\ zip[p] = TableContent(PerTableKinds[k], selectedTables[i])

\* the content the archive of a selection holds under a path
ContentAt(sel, rnd, p) == BuildProjectFiles(sel, rnd)[p]

\* C18: for a table T of the selection, each of T's per-table files has in
\* the downloaded archive the content it has in the archive of any other
\* selection that holds T (other tables added, removed or reordered).
C18_PerTableFilesIndependent ==
    downloads >= 1 =>
        \A i \in 1..Len(selectedTables) : \A k \in 1..Len(PerTableKinds) :
            LET p == TablePath(PerTableKinds[k], selectedTables[i]) IN
            \A other \in Selections : \A rnd \in RandomIds :
                (\E j \in 1..Len(other) : other[j] = selectedTables[i])
                    => ContentAt(other, rnd, p) = zip[p]

\* C25: progress is a multiple of 12.5 between 0 and 100 and below 100 while
\* generating; every change of progress adds exactly 12.5, so 100 is
\* reached with the eighth tick; the tick that reaches 100 marks the
\* generation complete and stops it; and a started generation completes.
C25_GenerationTerminates ==
    /\ ProgressMax = 8 * ProgressStep
    /\ [](/\ generationProgress % ProgressStep = 0
          /\ 0 <= generationProgress /\ generationProgress <= ProgressMax
          /\ isGenerating => generationProgress < ProgressMax)
    /\ [][generationProgress' # generationProgress
            => generationProgress' = generationProgress + ProgressStep]_vars
    /\ [][(generationProgress # ProgressMax /\ generationProgress' = ProgressMax)
            => (generationComplete' /\ ~isGenerating')]_vars
    /\ [][generationComplete => generationProgress' = generationProgress]_vars
    /\ (isGenerating ~> generationComplete)

\* the generation has completed and nothing has been downloaded yet
C25_Witness ==
    /\ generationComplete /\ ~isGenerating
    /\ generationProgress = ProgressMax
    /\ Len(toasts) = 1 /\ downloads = 0

\* C26: isGenerating and generationComplete are never both set, a complete
\* generation has progress 100, and a download has happened only with the
\* generation complete.
C26_FlagsExclusive ==
    /\ ~(isGenerating /\ generationComplete)
    /\ generationComplete => generationProgress = ProgressMax
    /\ downloads > 0 => generationComplete

\* the project has been downloaded once
C26_Witness ==
    /\ downloads = 1 /\ generationComplete /\ ~isGenerating
    /\ zip # NoFiles

\* the per-table paths of the archive
PerTablePaths ==
    { TablePath(PerTableKinds[k], selectedTables[i]) :
        k \in 1..Len(PerTableKinds), i \in 1..Len(selectedTables) }

\* C27: after a download, every listed file is a file of the archive under
\* the project folder, every per-table file of the archive is listed, and
\* the announced file count is the length of the list.
C27_ListAgreesWithArchive ==
    (generationComplete /\ downloads >= 1) =>
        /\ \A i \in 1..Len(generatedFiles) :
               ("GenNettaApp/" \o generatedFiles[i]) \in DOMAIN zip
        /\ \A p \in PerTablePaths \cap DOMAIN zip :
               \E i \in 1..Len(generatedFiles) : "GenNettaApp/" \o generatedFiles[i] = p
        /\ AnnouncedFileCount(selectedTables) = Len(generatedFiles)

IsDbSetLine(line) == Len(line) >= 21 /\ SubSeq(line, 1, 21) = "        public DbSet<"
\* the table a data-set declaration names: the text between "<" and ">"
DeclaredTable(line) == SubSeq(line, 22, IndexOf(line, ">", 22) - 1)
DeclaredTables(file) ==
    LET decls == SelectSeq(file.body, IsDbSetLine)
    IN  [i \in 1..Len(decls) |-> DeclaredTable(decls[i])]

IsRepositoryRegistration(line) ==
    /\ Len(line) >= 28 /\ SubSeq(line, 1, 28) = "builder.Services.AddScoped<I"
    /\ Includes(line, "Repository>();")
\* the table a registration names: the text between "<I" and "Repository,"
RegisteredTable(line) == SubSeq(line, 29, IndexOf(line, ",", 29) - 11)
RegisteredTables(file) ==
    LET regs == SelectSeq(file.body, IsRepositoryRegistration)
    IN  [i \in 1..Len(regs) |-> RegisteredTable(regs[i])]

\* the table a navigation entry links to: the text of asp-controller="..."
NavTable(line) == SubSeq(line, 37, IndexOf(line, "\"", 37) - 1)
NavTables(file) == [i \in 1..Len(file.body) |-> NavTable(file.body[i])]

\* C4: the archive holds exactly one database-context file, whose data-set
\* declarations name the selected tables once each in selection order; the
\* registration block of Program.cs and the navigation of the layout do too.
C4_SharedFilesListSelection ==
    downloads >= 1 =>
        /\ Cardinality({ p \in DOMAIN zip : zip[p].kind = "DbContext" }) = 1
        /\ \A p \in DOMAIN zip :
              zip[p].kind = "DbContext" => DeclaredTables(zip[p]) = selectedTables
        /\ \A p \in DOMAIN zip :
              zip[p].kind = "Program" => RegisteredTables(zip[p]) = selectedTables
        /\ \A p \in DOMAIN zip :
              zip[p].kind = "Layout" => NavTables(zip[p]) = selectedTables

\* C5: when the selection names a table that the schema snapshot does not
\* hold, the download reports an error and the archive holds no file made
\* for that table.
C5_AbsentTableReported ==
    downloads >= 1 =>
        \A i \in 1..Len(selectedTables) :
            selectedTables[i] \notin schema =>
                /\ \E j \in 1..Len(toasts) :
                      toasts[j] \notin {"Code Generation Complete!", "Download Complete!"}
                /\ \A p \in DOMAIN zip : zip[p].table # selectedTables[i]

\* the target scalar type of a source type (spec 4.2: first matching keyword)
TargetType(sourceType) ==
    LET t == ToLowerCase(sourceType) IN
    IF Includes(t, "bigint") THEN "long"
    ELSE IF Includes(t, "int") THEN "int"
    ELSE IF Includes(t, "decimal") \/ Includes(t, "numeric") \/ Includes(t, "money") THEN "decimal"
    ELSE IF Includes(t, "bit") THEN "bool"
    ELSE IF Includes(t, "date") \/ Includes(t, "timestamp") THEN "DateTime"
    ELSE IF Includes(t, "uniqueidentifier") \/ Includes(t, "uuid") THEN "Guid"
    ELSE IF Includes(t, "binary") \/ Includes(t, "image") THEN "byte[]"
    ELSE "string"

\* the property line a column is to yield
FieldLine(col) ==
    (IF col.primaryKey THEN "[Key] " ELSE "") \o "public " \o TargetType(col.type)
    \o (IF col.nullable /\ TargetType(col.type) \notin {"string", "byte[]"} THEN "?" ELSE "")
    \o " " \o col.name

\* C6: the model file of a table declares one field per column of the
\* table, in column order, typed by the column's source type, the primary
\* key marked as key.
C6_ModelFieldsFollowColumns ==
    downloads >= 1 =>
        \A i \in 1..Len(selectedTables) :
            LET t == selectedTables[i] IN
            t \in schema =>
                \A p \in FilesOf(zip, "EntityModel", t) :
                    zip[p].body = [c \in 1..Len(Columns(t)) |-> FieldLine(Columns(t)[c])]

-----------------------------------------------------------------------------
(* The analyze-schema services: one request handled by one service.         *)

MaxPwdPairs == 2
MaxTables == 2

\* a JSON value of the field connectionString
Undefined == [type |-> "undefined", text |-> ""]
Number5 == [type |-> "number", text |-> "5"]
Str(s) == [type |-> "string", text |-> s]

\* JavaScript truthiness, as !connectionString reads it
Truthy(v) == v.type = "number" \/ (v.type = "string" /\ v.text # "")

\* string.IsNullOrWhiteSpace
IsNullOrWhiteSpace(v) == v.type # "string" \/ Trim(v.text) = ""

ServerParts == {"", "Server=db1;", "Server=LAPTOP-7\\SQLEXPRESS;"}
DatabaseParts == {"", "Database=Shop;"}
UserParts == {"User Id=sa;"}
PasswordPairs == {"Password=secret;", "Pwd=secret;", "Password = secret;", "PASSWORD=hunter2;"}

RECURSIVE PasswordTexts(_)
PasswordTexts(n) ==
    IF n = 0 THEN {""}
    ELSE PasswordTexts(n - 1) \cup { t \o p : t \in PasswordTexts(n - 1), p \in PasswordPairs }

Descriptors ==
    { s \o d \o u \o p : s \in ServerParts, d \in DatabaseParts, u \in UserParts,
                         p \in PasswordTexts(MaxPwdPairs) } \cup {" "}

ConnectionStrings == {Undefined, Number5, Str("")} \cup { Str(d) : d \in Descriptors }

Request(method, json, cs) == [method |-> method, json |-> json, connectionString |-> cs]

\* json = FALSE: the body is no JSON object (edge: req.json() rejects; node:
\* req.body is undefined)
PostRequests ==
    {Request("POST", FALSE, Undefined)} \cup { Request("POST", TRUE, cs) : cs \in ConnectionStrings }

OptionsRequest == Request("OPTIONS", FALSE, Undefined)

\* the model binder of ASP.NET hands the action a string (default: string.Empty)
DotnetRequests == { r \in PostRequests : r.json /\ r.connectionString.type = "string" }

\* ---- responses
Failure(status, message) ==
    [status |-> status, kind |-> "json", success |-> FALSE, hasTables |-> FALSE,
     tables |-> <<>>, error |-> message, echo |-> ""]

Success(tbls, echo) ==
    [status |-> 200, kind |-> "json", success |-> TRUE, hasTables |-> TRUE,
     tables |-> tbls, error |-> "", echo |-> echo]

\* new Response('ok', { headers: corsHeaders })
Preflight ==
    [status |-> 200, kind |-> "text", success |-> FALSE, hasTables |-> FALSE,
     tables |-> <<>>, error |-> "", echo |-> ""]

\* ---- errors
NoError == [isError |-> FALSE, message |-> ""]
Error(message) == [isError |-> TRUE, message |-> message]

\* e instanceof Error ? e.message : fallback
MessageOf(e, fallback) == IF e.isError THEN e.message ELSE fallback

\* what the runtime and the drivers raise
JsonSyntaxError == Error("Unexpected end of JSON input")
SplitTypeError == Error("connectionString.split is not a function")
DestructureTypeError == Error("Cannot destructure property 'connectionString' of 'req.body' as it is undefined.")
ConnectError == Error("Failed to connect to db1:1433")
QueryError == Error("The SELECT permission was denied on the object 'TABLES'")
CloseError == Error("Connection is closed.")
HeadersSentError == Error("Cannot set headers after they are sent to the client")

\* ---- the data source
\* the base tables of the database, ORDER BY TABLE_NAME
DbTableNames == <<"Categories", "Orders", "Products", "Users">>

TableOf(name) == [name |-> name, columns |-> Columns(name)]

\* the driver opens a connection only to a descriptor that names a server
DriverAccepts(cs) == cs.type = "string" /\ parseConnectionString(cs.text).server # ""

generateRealisticSchema(databaseName) ==
    << [name |-> "Users", columns |-> <<
          Col("Id", "int", FALSE, TRUE), Col("Username", "nvarchar(50)", FALSE, FALSE),
          Col("Email", "nvarchar(255)", FALSE, FALSE), Col("PasswordHash", "nvarchar(255)", FALSE, FALSE),
          Col("FirstName", "nvarchar(100)", TRUE, FALSE), Col("LastName", "nvarchar(100)", TRUE, FALSE),
          Col("IsActive", "bit", FALSE, FALSE), Col("CreatedDate", "datetime2", FALSE, FALSE),
          Col("ModifiedDate", "datetime2", TRUE, FALSE) >>],
       [name |-> "Products", columns |-> <<
          Col("Id", "int", FALSE, TRUE), Col("Name", "nvarchar(200)", FALSE, FALSE),
          Col("Description", "nvarchar(max)", TRUE, FALSE), Col("Price", "decimal(18,2)", FALSE, FALSE),
          Col("CategoryId", "int", TRUE, FALSE), Col("SKU", "nvarchar(50)", FALSE, FALSE),
          Col("StockQuantity", "int", FALSE, FALSE), Col("IsActive", "bit", FALSE, FALSE),
          Col("CreatedDate", "datetime2", FALSE, FALSE), Col("ModifiedDate", "datetime2", TRUE, FALSE) >>] >>

\* the two revisions of the edge function: analyze-sqlserver-schema/index.ts
\* ("edge") and the later one kept in unnamed/part_000 ("edge2")
EdgeRevisions == {"edge", "edge2"}

GenIdle ==
    /\ selectedTables = <<>> /\ schema = {}
    /\ isGenerating = FALSE /\ generationProgress = 0 /\ generationComplete = FALSE
    /\ generatedFiles = <<>> /\ toasts = <<>>
    /\ zip = NoFiles /\ prevZip = NoFiles /\ downloads = 0

ApiInit ==
    /\ \/ service \in EdgeRevisions /\ req \in PostRequests \cup {OptionsRequest}
       \/ service = "node" /\ req \in PostRequests
       \/ service = "dotnet" /\ req \in DotnetRequests
    /\ pc = "start"
    /\ config = EmptyConfig
    /\ conn = "none" /\ opened = 0 /\ connectAttempts = 0 /\ closeCalls = 0 /\ closeFailed = FALSE
    /\ queries = 0 /\ tableNames = <<>> /\ tables = <<>>
    /\ err = NoError /\ errorsRaised = 0
    /\ responses = <<>> /\ respondAttempts = 0 /\ escaped = FALSE

\* a response is handed to the client
Send(r) ==
    /\ responses' = Append(responses, r)
    /\ respondAttempts' = respondAttempts + 1

-----------------------------------------------------------------------------
(* Supabase edge function (supabase/functions/analyze-sqlserver-schema).    *)

\* analyzeDatabase's catch, were it to write the password where the database
\* name goes
CannotConnectErrorWithPassword(cfg, e) ==
    Error("Cannot connect to SQL Server " \o cfg.server \o "/" \o cfg.password \o ": "
          \o MessageOf(e, "Unknown error"))

\* analyzeDatabase's catch: the error is wrapped and thrown again
CannotConnectError(cfg, e) ==
    Error("Cannot connect to SQL Server " \o cfg.server \o "/" \o cfg.database \o ": "
          \o MessageOf(e, "Unknown error"))

\* executeSchemaQueries' catch
NetworkError(e) ==
    Error("Network connection failed: " \o MessageOf(e, "Cannot reach SQL Server"))

\* the payload of serve's inner catch (dbError)
DbErrorResponse(e) ==
    Failure(500, "Failed to connect to SQL Server: " \o MessageOf(e, "Unknown database error"))

\* the payload of serve's outer catch
OuterErrorResponse(e) == Failure(500, MessageOf(e, "Unknown error occurred"))

\* serve, entry: the CORS preflight is answered at once
EdgeServe ==
    /\ service \in EdgeRevisions /\ pc = "start"
    /\ IF req.method = "OPTIONS"
       THEN Send(Preflight) /\ pc' = "done"
       ELSE pc' = "json" /\ UNCHANGED <<responses, respondAttempts>>
    /\ UNCHANGED <<service, req, config, conn, opened, closeCalls, closeFailed,
                   queries, tableNames, tables, err, errorsRaised, escaped>>
    /\ UNCHANGED <<connectAttempts, notApi>>

\* await req.json(), the !connectionString guard, parseConnectionString
EdgeReadBody ==
    /\ service \in EdgeRevisions /\ pc = "json"
    /\ IF ~req.json
       THEN /\ Send(OuterErrorResponse(JsonSyntaxError))
            /\ err' = JsonSyntaxError /\ errorsRaised' = errorsRaised + 1
            /\ pc' = "done" /\ UNCHANGED config
       ELSE IF ~Truthy(req.connectionString)
       THEN /\ Send(Failure(400, "Connection string is required"))
            /\ pc' = "done" /\ UNCHANGED <<config, err, errorsRaised>>
       ELSE IF req.connectionString.type # "string"
       THEN /\ Send(OuterErrorResponse(SplitTypeError))
            /\ err' = SplitTypeError /\ errorsRaised' = errorsRaised + 1
            /\ pc' = "done" /\ UNCHANGED config
       ELSE /\ config' = parseConnectionString(req.connectionString.text)
            /\ pc' = "analyze"
            /\ UNCHANGED <<responses, respondAttempts, err, errorsRaised>>
    /\ UNCHANGED <<service, req, conn, opened, closeCalls, closeFailed,
                   queries, tableNames, tables, escaped>>
    /\ UNCHANGED <<connectAttempts, notApi>>

\* analyzeDatabase up to the call of executeSchemaQueries
EdgeAnalyze ==
    /\ service \in EdgeRevisions /\ pc = "analyze"
    /\ IF config.server = "" \/ config.database = ""
       THEN LET thrown == CannotConnectError(config,
                              Error("Server and Database are required in the connection string"))
            IN  /\ Send(DbErrorResponse(thrown))
                /\ err' = thrown /\ errorsRaised' = errorsRaised + 1
                /\ pc' = "done"
       ELSE /\ pc' = IF service = "edge" THEN "connect" ELSE "probe"
            /\ UNCHANGED <<responses, respondAttempts, err, errorsRaised>>
    /\ UNCHANGED <<service, req, config, conn, opened, closeCalls, closeFailed,
                   queries, tableNames, tables, escaped>>
    /\ UNCHANGED <<connectAttempts, notApi>>

\* executeSchemaQueries: await Deno.connect(...)
EdgeConnect ==
    /\ service = "edge" /\ pc = "connect"
    /\ \E ok \in BOOLEAN :
         IF ok
         THEN /\ conn' = "open" /\ opened' = opened + 1
              /\ pc' = "close"
              /\ UNCHANGED <<responses, respondAttempts, err, errorsRaised>>
         ELSE LET thrown == CannotConnectError(config, NetworkError(ConnectError))
              IN  /\ Send(DbErrorResponse(thrown))
                  /\ err' = thrown /\ errorsRaised' = errorsRaised + 1
                  /\ pc' = "done"
                  /\ UNCHANGED <<conn, opened>>
    /\ UNCHANGED <<service, req, config, closeCalls, closeFailed,
                   queries, tableNames, tables, escaped>>
    /\ connectAttempts' = connectAttempts + 1
    /\ UNCHANGED notApi

\* executeSchemaQueries: conn.close(), then the fabricated schema is returned
EdgeClose ==
    /\ service = "edge" /\ pc = "close"
    /\ conn' = "closed" /\ closeCalls' = closeCalls + 1
    /\ tables' = generateRealisticSchema(config.database)
    /\ pc' = "respond"
    /\ UNCHANGED <<service, req, config, opened, closeFailed, queries, tableNames,
                   err, errorsRaised, responses, respondAttempts, escaped>>
    /\ UNCHANGED <<connectAttempts, notApi>>

\* serve: the success response, with the echoed connection string
EdgeRespond ==
    /\ service \in EdgeRevisions /\ pc = "respond"
    /\ Send(Success(tables, MaskConnectionString(req.connectionString.text)))
    /\ pc' = "done"
    /\ UNCHANGED <<service, req, config, conn, opened, closeCalls, closeFailed,
                   queries, tableNames, tables, err, errorsRaised, escaped>>
    /\ UNCHANGED <<connectAttempts, notApi>>

-----------------------------------------------------------------------------
(* The later revision of the edge function (unnamed/part_000): serve,       *)
(* parseConnectionString and the validation of analyzeDatabase are those of *)
(* the first revision; the schema is fetched by queryInformationSchema.     *)

\* config.port?.toString() || '1433'
PortText(cfg) == ToString(cfg.port)

\* fetchSchemaViaAPI: config.server.split('\\')[0]
ServerHost(cfg) == Split(cfg.server, "\\")[1]

\* fetchSchemaViaAPI's catch: the server looks like a local instance
LooksLocal(cfg) ==
    \/ Includes(cfg.server, "\\")
    \/ Includes(ToLowerCase(ServerHost(cfg)), "laptop")
    \/ Includes(ToLowerCase(ServerHost(cfg)), "pc")

\* fetchSchemaViaAPI's catch: the error thrown in place of connectError
FetchError(cfg) ==
    IF LooksLocal(cfg)
    THEN Error("Cannot connect to local SQL Server instance '" \o cfg.server
               \o "' from cloud function. \nFor GenNetta to work, your SQL Server must be:\n"
               \o "1. Hosted on a cloud provider (Azure, AWS, etc.) or publicly accessible server\n"
               \o "2. Not a local instance (localhost, computer name, or private IP)\n"
               \o "3. Accessible from the internet on port " \o PortText(cfg) \o "\n\n"
               \o "Your current server '" \o cfg.server \o "' appears to be a local instance.")
    ELSE Error("Cannot reach SQL Server at " \o ServerHost(cfg) \o ":" \o PortText(cfg)
               \o ". \nPlease verify:\n1. Server is publicly accessible\n2. Port "
               \o PortText(cfg) \o " is open\n3. SQL Server allows remote connections\n"
               \o "4. Connection string is correct")

\* queryInformationSchema's catch: the error thrown in place of the caught one
UnableToConnectError(cfg, e) ==
    Error("Unable to connect to SQL Server at " \o cfg.server \o ". Please ensure:\n"
          \o "1. Your SQL Server is publicly accessible (not localhost or private network)\n"
          \o "2. TCP/IP connections are enabled\n3. Port " \o PortText(cfg) \o " is open\n"
          \o "4. Your connection string credentials are correct\n\nConnection attempted: "
          \o cfg.server \o "/" \o cfg.database)

\* executeSchemaQueries' catch
SchemaQueryError(e) ==
    Error("Failed to query schema: " \o MessageOf(e, "Cannot execute schema queries"))

simulateSchemaQuery(cfg) ==
    << [name |-> "ConnectionInfo", columns |-> <<
          Col("Id", "int", FALSE, TRUE), Col("ServerName", "nvarchar", FALSE, FALSE),
          Col("DatabaseName", "nvarchar", FALSE, FALSE),
          Col("ConnectionStatus", "nvarchar", FALSE, FALSE),
          Col("Message", "nvarchar", TRUE, FALSE) >>] >>

\* queryInformationSchema: the first Deno.connect; its failure is logged and
\* dropped
Edge2Probe ==
    /\ service = "edge2" /\ pc = "probe"
    /\ connectAttempts' = connectAttempts + 1
    /\ \E ok \in BOOLEAN :
         IF ok
         THEN /\ conn' = "open" /\ opened' = opened + 1
              /\ pc' = "probeClose"
              /\ UNCHANGED errorsRaised
         ELSE /\ errorsRaised' = errorsRaised + 1
              /\ pc' = "fetch"
              /\ UNCHANGED <<conn, opened>>
    /\ UNCHANGED <<service, req, config, closeCalls, closeFailed, queries, tableNames,
                   tables, err, responses, respondAttempts, escaped>>
    /\ UNCHANGED notApi

\* queryInformationSchema: conn.close() of the first connection
Edge2ProbeClose ==
    /\ service = "edge2" /\ pc = "probeClose"
    /\ conn' = "closed" /\ closeCalls' = closeCalls + 1
    /\ pc' = "fetch"
    /\ UNCHANGED <<service, req, config, opened, closeFailed, queries, tableNames,
                   tables, err, errorsRaised, responses, respondAttempts, escaped>>
    /\ UNCHANGED <<connectAttempts, notApi>>

\* a variant of Edge2Fetch that answers with the example schema although the
\* connect failed
Edge2FetchFallsBack ==
    /\ service = "edge2" /\ pc = "fetch"
    /\ connectAttempts' = connectAttempts + 1
    /\ \E ok \in BOOLEAN :
         IF ok
         THEN /\ conn' = "open" /\ opened' = opened + 1
              /\ pc' = "fetchClose"
              /\ UNCHANGED <<responses, respondAttempts, err, errorsRaised>>
         ELSE /\ Send(Success(simulateSchemaQuery(config),
                              MaskConnectionString(req.connectionString.text)))
              /\ errorsRaised' = errorsRaised + 1
              /\ pc' = "done"
              /\ UNCHANGED <<conn, opened, err>>
    /\ UNCHANGED <<service, req, config, closeCalls, closeFailed, queries, tableNames,
                   tables, escaped>>
    /\ UNCHANGED notApi

\* fetchSchemaViaAPI: the second Deno.connect; its failure goes up through
\* the catch blocks of queryInformationSchema, executeSchemaQueries,
\* analyzeDatabase and serve
Edge2Fetch ==
    /\ service = "edge2" /\ pc = "fetch"
    /\ connectAttempts' = connectAttempts + 1
    /\ \E ok \in BOOLEAN :
         IF ok
         THEN /\ conn' = "open" /\ opened' = opened + 1
              /\ pc' = "fetchClose"
              /\ UNCHANGED <<responses, respondAttempts, err, errorsRaised>>
         ELSE LET thrown == CannotConnectError(config,
                                SchemaQueryError(UnableToConnectError(config, FetchError(config))))
              IN  /\ Send(DbErrorResponse(thrown))
                  /\ err' = thrown /\ errorsRaised' = errorsRaised + 1
                  /\ pc' = "done"
                  /\ UNCHANGED <<conn, opened>>
    /\ UNCHANGED <<service, req, config, closeCalls, closeFailed, queries, tableNames,
                   tables, escaped>>
    /\ UNCHANGED notApi

\* fetchSchemaViaAPI: conn.close(), then simulateSchemaQuery
Edge2FetchClose ==
    /\ service = "edge2" /\ pc = "fetchClose"
    /\ conn' = "closed" /\ closeCalls' = closeCalls + 1
    /\ tables' = simulateSchemaQuery(config)
    /\ pc' = "respond"
    /\ UNCHANGED <<service, req, config, opened, closeFailed, queries, tableNames,
                   err, errorsRaised, responses, respondAttempts, escaped>>
    /\ UNCHANGED <<connectAttempts, notApi>>

-----------------------------------------------------------------------------
(* Node/Express service (nodejs-api/src/index.ts).                          *)

\* entry of the handler: destructuring of req.body, the !connectionString guard
NodeHandle ==
    /\ service = "node" /\ pc = "start"
    /\ IF ~req.json
       THEN /\ err' = DestructureTypeError /\ errorsRaised' = errorsRaised + 1
            /\ pc' = "outerCatch"
            /\ UNCHANGED <<responses, respondAttempts>>
       ELSE IF ~Truthy(req.connectionString)
       THEN /\ Send(Failure(400, "Connection string is required"))
            /\ pc' = "done" /\ UNCHANGED <<err, errorsRaised>>
       ELSE pc' = "connect" /\ UNCHANGED <<responses, respondAttempts, err, errorsRaised>>
    /\ UNCHANGED <<service, req, config, conn, opened, closeCalls, closeFailed,
                   queries, tableNames, tables, escaped>>
    /\ UNCHANGED <<connectAttempts, notApi>>

\* pool = await sql.connect(connectionString)
NodeConnect ==
    /\ service = "node" /\ pc = "connect"
    /\ \/ /\ DriverAccepts(req.connectionString)
          /\ conn' = "open" /\ opened' = opened + 1
          /\ pc' = "tablesQuery"
          /\ UNCHANGED <<err, errorsRaised>>
       \/ /\ err' = ConnectError /\ errorsRaised' = errorsRaised + 1
          /\ pc' = "dbCatch"
          /\ UNCHANGED <<conn, opened>>
    /\ UNCHANGED <<service, req, config, closeCalls, closeFailed, queries,
                   tableNames, tables, responses, respondAttempts, escaped>>
    /\ connectAttempts' = connectAttempts + 1
    /\ UNCHANGED notApi

\* the query on INFORMATION_SCHEMA.TABLES
NodeTablesQuery ==
    /\ service = "node" /\ pc = "tablesQuery"
    /\ queries' = queries + 1
    /\ \/ \E n \in 0..MaxTables :
            /\ tableNames' = SubSeq(DbTableNames, 1, n)
            /\ pc' = "columns"
            /\ UNCHANGED <<err, errorsRaised>>
       \/ /\ err' = QueryError /\ errorsRaised' = errorsRaised + 1
          /\ pc' = "dbCatch"
          /\ UNCHANGED tableNames
    /\ UNCHANGED <<service, req, config, conn, opened, closeCalls, closeFailed,
                   tables, responses, respondAttempts, escaped>>
    /\ UNCHANGED <<connectAttempts, notApi>>

\* a variant of NodeColumnsQuery that queries the tables in any order
NodeColumnsQueryAnyTable ==
    /\ service = "node" /\ pc = "columns"
    /\ Len(tables) < Len(tableNames)
    /\ queries' = queries + 1
    /\ \/ /\ \E i \in 1..Len(tableNames) : tables' = Append(tables, TableOf(tableNames[i]))
          /\ UNCHANGED <<pc, err, errorsRaised>>
       \/ /\ err' = QueryError /\ errorsRaised' = errorsRaised + 1
          /\ pc' = "dbCatch"
          /\ UNCHANGED tables
    /\ UNCHANGED <<service, req, config, conn, opened, closeCalls, closeFailed,
                   tableNames, responses, respondAttempts, escaped>>
    /\ UNCHANGED <<connectAttempts, notApi>>

\* one iteration of the for loop: the column query of the next table
NodeColumnsQuery ==
    /\ service = "node" /\ pc = "columns"
    /\ Len(tables) < Len(tableNames)
    /\ queries' = queries + 1
    /\ \/ /\ tables' = Append(tables, TableOf(tableNames[Len(tables) + 1]))
          /\ UNCHANGED <<pc, err, errorsRaised>>
       \/ /\ err' = QueryError /\ errorsRaised' = errorsRaised + 1
          /\ pc' = "dbCatch"
          /\ UNCHANGED tables
    /\ UNCHANGED <<service, req, config, conn, opened, closeCalls, closeFailed,
                   tableNames, responses, respondAttempts, escaped>>
    /\ UNCHANGED <<connectAttempts, notApi>>

\* return res.json({ success: true, tables })
NodeRespond ==
    /\ service = "node" /\ pc = "columns"
    /\ Len(tables) = Len(tableNames)
    /\ Send(Success(tables, ""))
    /\ pc' = "finally"
    /\ UNCHANGED <<service, req, config, conn, opened, closeCalls, closeFailed,
                   queries, tableNames, tables, err, errorsRaised, escaped>>
    /\ UNCHANGED <<connectAttempts, notApi>>

\* a variant of NodeDbCatch that leaves out res.status(500)
NodeDbCatchStatusOmitted ==
    /\ service = "node" /\ pc = "dbCatch"
    /\ Send(Failure(200, MessageOf(err, "Database connection failed")))
    /\ pc' = "finally"
    /\ UNCHANGED <<service, req, config, conn, opened, closeCalls, closeFailed,
                   queries, tableNames, tables, err, errorsRaised, escaped>>
    /\ UNCHANGED <<connectAttempts, notApi>>

\* a variant of NodeDbCatch that reports the tables read so far
NodeDbCatchPartialTables ==
    /\ service = "node" /\ pc = "dbCatch"
    /\ Send([Failure(500, MessageOf(err, "Database connection failed"))
                EXCEPT !.hasTables = TRUE, !.tables = tables])
    /\ pc' = "finally"
    /\ UNCHANGED <<service, req, config, conn, opened, closeCalls, closeFailed,
                   queries, tableNames, tables, err, errorsRaised, escaped>>
    /\ UNCHANGED <<connectAttempts, notApi>>

\* catch (dbError): return res.status(500).json(...)
NodeDbCatch ==
    /\ service = "node" /\ pc = "dbCatch"
    /\ Send(Failure(500, MessageOf(err, "Database connection failed")))
    /\ pc' = "finally"
    /\ UNCHANGED <<service, req, config, conn, opened, closeCalls, closeFailed,
                   queries, tableNames, tables, err, errorsRaised, escaped>>
    /\ UNCHANGED <<connectAttempts, notApi>>

\* a variant of NodeFinally for a handler that has no finally block
NodeFinallyOmitted ==
    /\ service = "node" /\ pc = "finally"
    /\ pc' = "done"
    /\ UNCHANGED <<service, req, config, conn, opened, closeCalls, closeFailed,
                   queries, tableNames, tables, err, errorsRaised, responses,
                   respondAttempts, escaped>>
    /\ UNCHANGED <<connectAttempts, notApi>>

\* finally { if (pool) await pool.close() }: a close that rejects leaves the
\* pool open or closed
NodeFinally ==
    /\ service = "node" /\ pc = "finally"
    /\ IF conn = "none"
       THEN pc' = "done" /\ UNCHANGED <<conn, closeCalls, closeFailed, err, errorsRaised>>
       ELSE /\ closeCalls' = closeCalls + 1
            /\ \/ /\ conn' = "closed" /\ pc' = "done"
                  /\ UNCHANGED <<closeFailed, err, errorsRaised>>
               \/ /\ conn' \in {"open", "closed"}
                  /\ closeFailed' = TRUE
                  /\ err' = CloseError /\ errorsRaised' = errorsRaised + 1
                  /\ pc' = "outerCatch"
    /\ UNCHANGED <<service, req, config, opened, queries, tableNames, tables,
                   responses, respondAttempts, escaped>>
    /\ UNCHANGED <<connectAttempts, notApi>>

\* the outer catch: res.status(500).json(...); once a response has been sent,
\* res.json throws ERR_HTTP_HEADERS_SENT out of the handler
NodeOuterCatch ==
    /\ service = "node" /\ pc = "outerCatch"
    /\ IF responses = <<>>
       THEN /\ Send(OuterErrorResponse(err))
            /\ UNCHANGED <<err, errorsRaised, escaped>>
       ELSE /\ respondAttempts' = respondAttempts + 1
            /\ err' = HeadersSentError /\ errorsRaised' = errorsRaised + 1
            /\ escaped' = TRUE
            /\ UNCHANGED responses
    /\ pc' = "done"
    /\ UNCHANGED <<service, req, config, conn, opened, closeCalls, closeFailed,
                   queries, tableNames, tables>>
    /\ UNCHANGED <<connectAttempts, notApi>>

-----------------------------------------------------------------------------
(* ASP.NET controller (dotnet-api/Controllers/SchemaController.cs).         *)

\* entry of AnalyzeSchema: the IsNullOrWhiteSpace guard
DotnetHandle ==
    /\ service = "dotnet" /\ pc = "start"
    /\ IF IsNullOrWhiteSpace(req.connectionString)
       THEN Send(Failure(400, "Connection string is required")) /\ pc' = "done"
       ELSE pc' = "open" /\ UNCHANGED <<responses, respondAttempts>>
    /\ UNCHANGED <<service, req, config, conn, opened, closeCalls, closeFailed,
                   queries, tableNames, tables, err, errorsRaised, escaped>>
    /\ UNCHANGED <<connectAttempts, notApi>>

\* new SqlConnection(...) and await connection.OpenAsync()
DotnetOpen ==
    /\ service = "dotnet" /\ pc = "open"
    /\ \/ /\ DriverAccepts(req.connectionString)
          /\ conn' = "open" /\ opened' = opened + 1
          /\ pc' = "tablesQuery"
          /\ UNCHANGED <<err, errorsRaised>>
       \/ /\ err' = ConnectError /\ errorsRaised' = errorsRaised + 1
          /\ pc' = "dispose"
          /\ UNCHANGED <<conn, opened>>
    /\ UNCHANGED <<service, req, config, closeCalls, closeFailed, queries,
                   tableNames, tables, responses, respondAttempts, escaped>>
    /\ connectAttempts' = connectAttempts + 1
    /\ UNCHANGED notApi

\* tablesCommand.ExecuteReaderAsync() and the loop that collects the names
DotnetTablesQuery ==
    /\ service = "dotnet" /\ pc = "tablesQuery"
    /\ queries' = queries + 1
    /\ \/ \E n \in 0..MaxTables :
            /\ tableNames' = SubSeq(DbTableNames, 1, n)
            /\ pc' = "columns"
            /\ UNCHANGED <<err, errorsRaised>>
       \/ /\ err' = QueryError /\ errorsRaised' = errorsRaised + 1
          /\ pc' = "dispose"
          /\ UNCHANGED tableNames
    /\ UNCHANGED <<service, req, config, conn, opened, closeCalls, closeFailed,
                   tables, responses, respondAttempts, escaped>>
    /\ UNCHANGED <<connectAttempts, notApi>>

\* one iteration of the foreach: the column query of the next table
DotnetColumnsQuery ==
    /\ service = "dotnet" /\ pc = "columns"
    /\ Len(tables) < Len(tableNames)
    /\ queries' = queries + 1
    /\ \/ /\ tables' = Append(tables, TableOf(tableNames[Len(tables) + 1]))
          /\ UNCHANGED <<pc, err, errorsRaised>>
       \/ /\ err' = QueryError /\ errorsRaised' = errorsRaised + 1
          /\ pc' = "dispose"
          /\ UNCHANGED tables
    /\ UNCHANGED <<service, req, config, conn, opened, closeCalls, closeFailed,
                   tableNames, responses, respondAttempts, escaped>>
    /\ UNCHANGED <<connectAttempts, notApi>>

\* the end of the using block, reached normally or by an exception: the
\* connection is disposed
DotnetDispose ==
    /\ service = "dotnet"
    /\ pc = "dispose" \/ (pc = "columns" /\ Len(tables) = Len(tableNames))
    /\ IF conn = "open"
       THEN conn' = "closed" /\ closeCalls' = closeCalls + 1
       ELSE UNCHANGED <<conn, closeCalls>>
    /\ pc' = IF err = NoError THEN "ok" ELSE "catch"
    /\ UNCHANGED <<service, req, config, opened, closeFailed, queries, tableNames,
                   tables, err, errorsRaised, responses, respondAttempts, escaped>>
    /\ UNCHANGED <<connectAttempts, notApi>>

\* return Ok(new { success = true, tables = tables })
DotnetOk ==
    /\ service = "dotnet" /\ pc = "ok"
    /\ Send(Success(tables, ""))
    /\ pc' = "done"
    /\ UNCHANGED <<service, req, config, conn, opened, closeCalls, closeFailed,
                   queries, tableNames, tables, err, errorsRaised, escaped>>
    /\ UNCHANGED <<connectAttempts, notApi>>

\* catch (Exception ex): return StatusCode(500, ...)
DotnetCatch ==
    /\ service = "dotnet" /\ pc = "catch"
    /\ Send(Failure(500, err.message))
    /\ pc' = "done"
    /\ UNCHANGED <<service, req, config, conn, opened, closeCalls, closeFailed,
                   queries, tableNames, tables, err, errorsRaised, escaped>>
    /\ UNCHANGED <<connectAttempts, notApi>>

ApiNext ==
    \/ EdgeServe \/ EdgeReadBody \/ EdgeAnalyze \/ EdgeConnect \/ EdgeClose \/ EdgeRespond
    \/ Edge2Probe \/ Edge2ProbeClose \/ Edge2Fetch \/ Edge2FetchClose
    \/ NodeHandle \/ NodeConnect \/ NodeTablesQuery \/ NodeColumnsQuery \/ NodeRespond
    \/ NodeDbCatch \/ NodeFinally \/ NodeOuterCatch
    \/ DotnetHandle \/ DotnetOpen \/ DotnetTablesQuery \/ DotnetColumnsQuery
    \/ DotnetDispose \/ DotnetOk \/ DotnetCatch

\* the state when a request arrives: the generator is not involved
ApiStart == ApiInit /\ GenIdle /\ PoolIdle /\ ParseIdle /\ WizIdle

SpecApi == ApiStart /\ [][ApiNext]_vars

-----------------------------------------------------------------------------
(* Claims about the analyze-schema services, checked under SpecApi.         *)

\* the password the descriptor of the request yields
ParsedPassword == parseConnectionString(req.connectionString.text).password

\* C2: whenever the descriptor yields a non-empty password, the connection
\* string echoed in the success response of the edge function does not
\* contain that password.
C2_EchoHidesPassword ==
    \A i \in 1..Len(responses) :
        (service = "edge" /\ responses[i].success /\ ParsedPassword # "")
            => ~Includes(responses[i].echo, ParsedPassword)

\* the descriptor of the request is missing or malformed
Malformed ==
    \/ ~req.json
    \/ ~Truthy(req.connectionString)
    \/ req.connectionString.type # "string"
    \/ parseConnectionString(req.connectionString.text).server = ""
    \/ parseConnectionString(req.connectionString.text).database = ""

\* C7: a request whose descriptor is missing or malformed opens no
\* connection, issues no query and ends with one failure response.
C7_MalformedRejectedEarly ==
    (req.method = "POST" /\ Malformed) =>
        /\ opened = 0 /\ queries = 0
        /\ \A i \in 1..Len(responses) : ~responses[i].success
        /\ pc = "done" => Len(responses) = 1

\* a success payload or a failure payload; status 200 only with success
WellFormed(r) ==
    /\ r.kind = "json"
    /\ \/ r.success /\ r.hasTables /\ r.error = ""
       \/ ~r.success /\ ~r.hasTables /\ r.error # ""
    /\ r.status = 200 => r.success

OneWellFormedResponse ==
    /\ Len(responses) <= 1
    /\ pc = "done" => Len(responses) = 1
    /\ \A i \in 1..Len(responses) : WellFormed(responses[i])

C9_ErrorsCaught ==
    /\ ~escaped
    /\ respondAttempts <= 1
    /\ (pc = "done" /\ errorsRaised > 0) =>
           (Len(responses) = 1 /\ ~responses[1].success)

\* C10: when the invocation has ended, a connection that was opened has
\* been handed to close, and it is closed unless the close itself failed.
C10_OpenedConnectionClosed ==
    (pc = "done" /\ opened > 0) =>
        /\ closeCalls = opened
        /\ ~closeFailed => conn = "closed"

\* an invocation that failed at the second column query and closed its connection
C10_Witness ==
    /\ pc = "done" /\ opened = 1 /\ conn = "closed"
    /\ err = QueryError /\ Len(tables) = 1 /\ queries = 3

\* C11: one invocation makes at most one attempt to open a connection and
\* opens at most one connection.
C11_SingleConnectionAttempt ==
    connectAttempts <= 1 /\ opened <= 1

\* the password values written in the submitted descriptor
PasswordValues == {"secret", "hunter2"}
WrittenPasswords ==
    IF req.connectionString.type = "string"
    THEN { p \in PasswordValues : Includes(req.connectionString.text, p) }
    ELSE {}

SchemaProviders == {"node", "dotnet"}

\* the tables of the enumeration, each with the answer of its column query
TablesInOrder == [i \in 1..Len(tableNames) |-> TableOf(tableNames[i])]

\* C21: the provider issues one table-enumeration query and then one column
\* query per enumerated table, in enumeration order and one at a time; the
\* tables read so far, and the tables of a success response, are those of
\* the enumeration in its order, each with the columns of its own query.
C21_QueriesSequentialInOrder ==
    service \in SchemaProviders =>
        /\ Len(tables) <= Len(tableNames)
        /\ \A i \in 1..Len(tables) : tables[i] = TablesInOrder[i]
        /\ queries <= 1 + Len(tableNames)
        /\ pc = "columns" => queries = 1 + Len(tables)
        /\ pc = "tablesQuery" => queries = 0
        /\ \A i \in 1..Len(responses) :
               responses[i].success =>
                   /\ responses[i].tables = TablesInOrder
                   /\ queries = 1 + Len(tableNames)

\* a success of the Node service after three queries, for two tables
C21_Witness ==
    /\ service = "node" /\ pc = "done"
    /\ Len(tableNames) = 2 /\ queries = 3
    /\ Len(responses) = 1 /\ responses[1].success
    /\ responses[1].tables[2].name = "Orders"

NoTableList(r) == ~r.success /\ ~r.hasTables /\ r.tables = <<>>

\* C22: once an error has been raised in a provider invocation no query is
\* issued any more; the response sent for a query error is a failure
\* without a table list, and it is the only response of the invocation.
C22_QueryErrorIsTerminal ==
    /\ [][(service \in SchemaProviders /\ err.isError) => queries' = queries]_vars
    /\ [][(service \in SchemaProviders /\ err = QueryError /\ responses' # responses)
            => (Len(responses') = 1 /\ NoTableList(responses'[1]))]_vars
    /\ [](service \in SchemaProviders /\ err = QueryError /\ pc = "done"
            => (Len(responses) = 1 /\ NoTableList(responses[1])))

\* the column query of the second table failed after the first table had
\* been read
C22_Witness ==
    /\ service \in SchemaProviders /\ pc = "done"
    /\ err = QueryError /\ Len(tables) = 1 /\ queries = 3
    /\ Len(responses) = 1 /\ responses[1].status = 500

-----------------------------------------------------------------------------
(* Overlapping requests to the Node service. The handlers run in one        *)
(* process and interleave at their awaits; sql.connect(...) of the mssql    *)
(* module keeps one global pool. The data source answers every query, so a  *)
(* request that runs alone succeeds with the tables of its own database.    *)

MaxHandlers == 2

Handlers == 1..MaxHandlers

\* the descriptors the overlapping requests carry
PoolDescriptors ==
    {"Server=db1;Database=Shop;User Id=sa;", "Server=db1;Database=Crm;User Id=sa;"}

\* the base tables of a database, ORDER BY TABLE_NAME
TablesIn(database) ==
    CASE database = "Shop" -> <<"Orders", "Users">>
      [] database = "Crm" -> <<"Contacts">>
      [] OTHER -> <<>>

\* what the mssql module raises
AlreadyConnectedError == Error("Global connection already exists. Call sql.close() first.")
PoolClosedError == Error("Connection is closed.")

Handler(cs) ==
    [pc |-> "start", connectionString |-> cs, pool |-> 0, tableNames |-> <<>>,
     tables |-> <<>>, err |-> NoError, sent |-> <<>>]

PoolInit ==
    /\ globalPool = 0
    /\ pools = <<>>
    /\ handlers \in [Handlers -> { Handler(Str(d)) : d \in PoolDescriptors }]

\* entry of the handler: the !connectionString guard
PoolHandle(h) ==
    /\ handlers[h].pc = "start"
    /\ IF ~Truthy(handlers[h].connectionString)
       THEN handlers' = [handlers EXCEPT ![h].pc = "done",
                             ![h].sent = <<Failure(400, "Connection string is required")>>]
       ELSE handlers' = [handlers EXCEPT ![h].pc = "connect"]
    /\ UNCHANGED <<globalPool, pools>>
    /\ UNCHANGED notPool

\* pool = await sql.connect(connectionString): the first call creates the
\* global pool; a call made while it exists is handed that pool or, in the
\* older releases of the module, is rejected
PoolConnect(h) ==
    /\ handlers[h].pc = "connect"
    /\ IF globalPool = 0
       THEN /\ pools' = Append(pools, [open |-> TRUE, cs |-> handlers[h].connectionString.text])
            /\ globalPool' = Len(pools) + 1
            /\ handlers' = [handlers EXCEPT ![h].pool = Len(pools) + 1,
                                            ![h].pc = "tablesQuery"]
       ELSE /\ \/ handlers' = [handlers EXCEPT ![h].pool = globalPool,
                                               ![h].pc = "tablesQuery"]
               \/ handlers' = [handlers EXCEPT ![h].err = AlreadyConnectedError,
                                               ![h].pc = "dbCatch"]
            /\ UNCHANGED <<globalPool, pools>>
    /\ UNCHANGED notPool

\* the query on INFORMATION_SCHEMA.TABLES, through the pool the handler holds
PoolTablesQuery(h) ==
    /\ handlers[h].pc = "tablesQuery"
    /\ LET pool == pools[handlers[h].pool] IN
       IF pool.open
       THEN handlers' = [handlers EXCEPT
                ![h].tableNames = TablesIn(parseConnectionString(pool.cs).database),
                ![h].pc = "columns"]
       ELSE handlers' = [handlers EXCEPT ![h].err = PoolClosedError, ![h].pc = "dbCatch"]
    /\ UNCHANGED <<globalPool, pools>>
    /\ UNCHANGED notPool

\* one iteration of the for loop: the column query of the next table
PoolColumnsQuery(h) ==
    /\ handlers[h].pc = "columns"
    /\ Len(handlers[h].tables) < Len(handlers[h].tableNames)
    /\ IF pools[handlers[h].pool].open
       THEN handlers' = [handlers EXCEPT ![h].tables =
                Append(@, TableOf(handlers[h].tableNames[Len(handlers[h].tables) + 1]))]
       ELSE handlers' = [handlers EXCEPT ![h].err = PoolClosedError, ![h].pc = "dbCatch"]
    /\ UNCHANGED <<globalPool, pools>>
    /\ UNCHANGED notPool

\* return res.json({ success: true, tables })
PoolRespond(h) ==
    /\ handlers[h].pc = "columns"
    /\ Len(handlers[h].tables) = Len(handlers[h].tableNames)
    /\ handlers' = [handlers EXCEPT ![h].sent = <<Success(handlers[h].tables, "")>>,
                                    ![h].pc = "finally"]
    /\ UNCHANGED <<globalPool, pools>>
    /\ UNCHANGED notPool

\* catch (dbError): return res.status(500).json(...)
PoolDbCatch(h) ==
    /\ handlers[h].pc = "dbCatch"
    /\ handlers' = [handlers EXCEPT
            ![h].sent = <<Failure(500, MessageOf(handlers[h].err, "Database connection failed"))>>,
            ![h].pc = "finally"]
    /\ UNCHANGED <<globalPool, pools>>
    /\ UNCHANGED notPool

\* finally { if (pool) await pool.close() }: closing the global pool also
\* clears the module's reference to it
PoolFinally(h) ==
    /\ handlers[h].pc = "finally"
    /\ IF handlers[h].pool = 0
       THEN UNCHANGED <<globalPool, pools>>
       ELSE /\ pools' = [pools EXCEPT ![handlers[h].pool].open = FALSE]
            /\ globalPool' = IF globalPool = handlers[h].pool THEN 0 ELSE globalPool
    /\ handlers' = [handlers EXCEPT ![h].pc = "done"]
    /\ UNCHANGED notPool

PoolNext ==
    \E h \in Handlers :
        \/ PoolHandle(h) \/ PoolConnect(h) \/ PoolTablesQuery(h) \/ PoolColumnsQuery(h)
        \/ PoolRespond(h) \/ PoolDbCatch(h) \/ PoolFinally(h)

\* the requests arrive: neither the component nor the single request is involved
PoolStart == PoolInit /\ GenIdle /\ ApiIdle /\ ParseIdle /\ WizIdle

SpecPool == PoolStart /\ [][PoolNext]_vars

\* the response a request gets when it runs alone
AloneResponse(cs) ==
    LET names == TablesIn(parseConnectionString(cs.text).database)
    IN  Success([i \in 1..Len(names) |-> TableOf(names[i])], "")

\* C12: each of two overlapping requests ends with the response it gets when
\* it runs alone, and a pool a handler is querying through is open.
C12_RequestsIndependent ==
    \A h \in Handlers :
        /\ handlers[h].pc = "done" =>
               handlers[h].sent = <<AloneResponse(handlers[h].connectionString)>>
        /\ handlers[h].pc \in {"tablesQuery", "columns"} => pools[handlers[h].pool].open

-----------------------------------------------------------------------------
(* parseConnectionString, called on descriptors written pair by pair.       *)

MaxPairs == 2

\* the config field a key selects, and spellings of the key; Encrypt is a
\* key the parser does not know
KeySpellings ==
    { <<"server", "Server">>, <<"server", "SERVER">>, <<"server", "DATA SOURCE">>,
      <<"database", "Database">>, <<"database", "initial catalog">>,
      <<"username", "User Id">>, <<"username", "UID">>,
      <<"password", "Password">>, <<"password", "pwd">>,
      <<"trustedConnection", "Trusted_Connection">>,
      <<"trustedConnection", "INTEGRATED SECURITY">>,
      <<"none", "Encrypt">> }

\* the values written after the first "=": plain, holding a "=", empty
ValueTexts == {"yes", "a=b", ""}

PairChoices ==
    { [field |-> k[1], key |-> k[2], value |-> v] : k \in KeySpellings, v \in ValueTexts }

\* the descriptor as submitted: key=value; for each pair
RECURSIVE Render(_)
Render(ps) ==
    IF Len(ps) = 0 THEN ""
    ELSE Head(ps).key \o "=" \o Head(ps).value \o ";" \o Render(Tail(ps))

ParseInit == writtenPairs = <<>> /\ parsed = <<>>

\* the caller writes one more pair
WritePair ==
    /\ parsed = <<>>
    /\ Len(writtenPairs) < MaxPairs
    /\ \E p \in PairChoices : writtenPairs' = Append(writtenPairs, p)
    /\ UNCHANGED parsed
    /\ UNCHANGED notParse

\* const connectionConfig = parseConnectionString(connectionString)
CallParse ==
    /\ parsed = <<>>
    /\ parsed' = <<parseConnectionString(Render(writtenPairs))>>
    /\ UNCHANGED writtenPairs
    /\ UNCHANGED notParse

ParseNext == WritePair \/ CallParse

\* the parser is called: no component, no request is involved
ParseStart == ParseInit /\ GenIdle /\ ApiIdle /\ PoolIdle /\ WizIdle

SpecParse == ParseStart /\ [][ParseNext]_vars

-----------------------------------------------------------------------------
(* Claims about parseConnectionString, checked under SpecParse.             *)

TextFields == {"server", "database", "username", "password"}

FieldOf(cfg, f) ==
    CASE f = "server" -> cfg.server
      [] f = "database" -> cfg.database
      [] f = "username" -> cfg.username
      [] f = "password" -> cfg.password

\* the places at which the written descriptor gives field f
Occurrences(f) == { i \in 1..Len(writtenPairs) : writtenPairs[i].field = f }

LastOccurrence(f) == CHOOSE i \in Occurrences(f) : \A j \in Occurrences(f) : j <= i

\* C13: when a recognized key, under any of its spellings, is written more
\* than once, the parsed field holds the value of its last occurrence.
C13_LastOccurrenceWins ==
    parsed # <<>> =>
        \A f \in TextFields :
            Cardinality(Occurrences(f)) >= 2 =>
                FieldOf(parsed[1], f) = writtenPairs[LastOccurrence(f)].value

\* C14: the value of a pair is all of the text after the first "=" of the
\* pair: a key written once with a non-empty value yields that value whole.
C14_ValueIsTextAfterFirstEquals ==
    parsed # <<>> =>
        \A f \in TextFields :
            (Cardinality(Occurrences(f)) = 1 /\ writtenPairs[LastOccurrence(f)].value # "") =>
                FieldOf(parsed[1], f) = writtenPairs[LastOccurrence(f)].value

\* the first spelling the claim lists for the key of a field
CanonicalKey(field) ==
    CASE field = "server" -> "Server"
      [] field = "database" -> "Database"
      [] field = "username" -> "User Id"
      [] field = "password" -> "Password"
      [] field = "trustedConnection" -> "Trusted_Connection"

\* the same descriptor with every recognized key in its first spelling
Canonical(ps) ==
    [i \in 1..Len(ps) |->
        IF ps[i].field = "none" THEN ps[i]
        ELSE [ps[i] EXCEPT !.key = CanonicalKey(ps[i].field)]]

\* C15: a descriptor parses as the descriptor that differs from it only in
\* the letter case of keys and in the alias used, and the example descriptor
\* parses to server db1, database Shop, username sa, password secret.
C15_KeysCaseAndAliasInsensitive ==
    /\ parseConnectionString("Server=db1;Database=Shop;User Id=sa;Password=secret;")
         = [EmptyConfig EXCEPT !.server = "db1", !.database = "Shop",
                               !.username = "sa", !.password = "secret"]
    /\ parsed # <<>> =>
           parsed[1] = parseConnectionString(Render(Canonical(writtenPairs)))

\* a descriptor written with an alias in capitals and a short key in lower case
C15_Witness ==
    /\ parsed # <<>> /\ Len(writtenPairs) = 2
    /\ writtenPairs[1].key = "DATA SOURCE" /\ writtenPairs[2].key = "pwd"
    /\ parsed[1].server = "yes" /\ parsed[1].password = "yes"

Recognized(p) == p.field # "none"

\* C16: the parsed result is the one of the descriptor without its pairs of
\* unrecognized key, wherever those pairs stand.
C16_UnrecognizedKeysIgnored ==
    parsed # <<>> =>
        parsed[1] = parseConnectionString(Render(SelectSeq(writtenPairs, Recognized)))

\* a descriptor with an unrecognized pair before a recognized one
C16_Witness ==
    /\ parsed # <<>> /\ Len(writtenPairs) = 2
    /\ writtenPairs[1].field = "none" /\ writtenPairs[1].value = "yes"
    /\ writtenPairs[2].field = "database"
    /\ parsed[1].database = "yes" /\ parsed[1].server = ""

-----------------------------------------------------------------------------
(* The wizard: GenNettaApp holds the step, the descriptor, the schema       *)
(* snapshot and the selection; DatabaseConnection and SchemaExplorer hold   *)
(* what the user is typing and ticking. Only the content of the current     *)
(* step is rendered, so a child is constructed anew whenever its step is    *)
(* shown again. The handlers of one event run to completion and their state *)
(* updates are applied together.                                            *)

MaxConnects == 2
MaxRefused == 1

Steps == {"connection", "schema", "generation"}

\* what the user may have in the text area
TypedTexts == {"", " ", "Server=db1;Database=Shop;"}

\* the names of the tables of mockSchema, in order
MockTables == <<"User", "Product", "Order", "Category">>

\* prev.includes(tableName)
Ticked(sel, tableName) == \E i \in 1..Len(sel) : sel[i] = tableName

\* prev.filter(t => t !== tableName)
Unticked(sel, tableName) == SelectSeq(sel, LAMBDA t : t # tableName)

\* the updater of toggleTableSelection
Toggled(sel, tableName) ==
    IF Ticked(sel, tableName) THEN Unticked(sel, tableName) ELSE Append(sel, tableName)

isStepAccessibleBySchema(step) ==
    CASE step = "connection" -> TRUE
      [] step = "schema"     -> databaseSchema.present
      [] step = "generation" -> databaseSchema.present

isStepAccessible(step) ==
    CASE step = "connection" -> TRUE
      [] step = "schema"     -> databaseSchema.present
      [] step = "generation" -> Len(appSelectedTables) > 0

\* the children after the step changes to next with snapshot snap: the
\* child of a step that stays shown keeps its state, a child that is shown
\* anew starts from its useState initial values, the others are gone
ShowStep(next, snap) ==
    /\ typed' = IF next = "connection" /\ currentStep = "connection" THEN typed ELSE ""
    /\ isConnecting' = IF next = "connection" /\ currentStep = "connection"
                       THEN isConnecting ELSE FALSE
    /\ explorerSelected' = IF next # "schema" THEN <<>>
                           ELSE IF currentStep = "schema" THEN explorerSelected
                           ELSE snap.tables

\* onChange of the text area
TypeConnectionString ==
    /\ currentStep = "connection"
    /\ \E t \in TypedTexts : t # typed /\ typed' = t
    /\ UNCHANGED <<currentStep, appConnectionString, databaseSchema, appSelectedTables,
                   isConnecting, pendingConnects, explorerSelected, connectsStarted,
                   connectsDone, connectsAtProceed, sinceReset, tabsRefused>>
    /\ UNCHANGED notWiz

\* handleTestConnection up to its await (the button is disabled while
\* connecting or while the text is blank)
handleTestConnection ==
    /\ currentStep = "connection"
    /\ ~isConnecting
    /\ Trim(typed) # ""
    /\ connectsStarted < MaxConnects
    /\ isConnecting' = TRUE
    /\ pendingConnects' = Append(pendingConnects, typed)
    /\ connectsStarted' = connectsStarted + 1
    /\ UNCHANGED <<currentStep, appConnectionString, databaseSchema, appSelectedTables,
                   typed, explorerSelected, connectsDone, connectsAtProceed, sinceReset,
                   tabsRefused>>
    /\ UNCHANGED notWiz

\* GenNettaApp.handleConnectionSuccess
handleConnectionSuccess(connStr, snap) ==
    /\ appConnectionString' = connStr
    /\ databaseSchema' = snap
    /\ currentStep' = "schema"
    /\ UNCHANGED appSelectedTables
    /\ ShowStep("schema", snap)

\* handleTestConnection after its await: the timer of the oldest running
\* connect fires and the mock schema is handed to the wizard
ConnectionTimer ==
    /\ pendingConnects # <<>>
    /\ handleConnectionSuccess(Head(pendingConnects), Snapshot(MockTables))
    /\ pendingConnects' = Tail(pendingConnects)
    /\ connectsDone' = connectsDone + 1
    /\ sinceReset' = FALSE
    /\ UNCHANGED <<connectsStarted, connectsAtProceed, tabsRefused>>
    /\ UNCHANGED notWiz

toggleTableSelection ==
    /\ currentStep = "schema" /\ databaseSchema.present
    /\ \E i \in 1..Len(databaseSchema.tables) :
          explorerSelected' = Toggled(explorerSelected, databaseSchema.tables[i])
    /\ UNCHANGED <<currentStep, appConnectionString, databaseSchema, appSelectedTables,
                   typed, isConnecting, pendingConnects, connectsStarted,
                   connectsDone, connectsAtProceed, sinceReset, tabsRefused>>
    /\ UNCHANGED notWiz

selectAllTables ==
    /\ currentStep = "schema" /\ databaseSchema.present
    /\ explorerSelected' = databaseSchema.tables
    /\ UNCHANGED <<currentStep, appConnectionString, databaseSchema, appSelectedTables,
                   typed, isConnecting, pendingConnects, connectsStarted,
                   connectsDone, connectsAtProceed, sinceReset, tabsRefused>>
    /\ UNCHANGED notWiz

deselectAllTables ==
    /\ currentStep = "schema" /\ databaseSchema.present
    /\ explorerSelected' = <<>>
    /\ UNCHANGED <<currentStep, appConnectionString, databaseSchema, appSelectedTables,
                   typed, isConnecting, pendingConnects, connectsStarted,
                   connectsDone, connectsAtProceed, sinceReset, tabsRefused>>
    /\ UNCHANGED notWiz

\* the button of SchemaExplorer (disabled while nothing is ticked) and
\* GenNettaApp.handleProceedToGeneration
handleProceedToGeneration ==
    /\ currentStep = "schema" /\ databaseSchema.present
    /\ Len(explorerSelected) # 0
    /\ appSelectedTables' = explorerSelected
    /\ currentStep' = "generation"
    /\ connectsAtProceed' = connectsDone
    /\ ShowStep("generation", databaseSchema)
    /\ UNCHANGED <<appConnectionString, databaseSchema, pendingConnects,
                   connectsStarted, connectsDone, sinceReset, tabsRefused>>
    /\ UNCHANGED notWiz

\* onValueChange, were it to set the step without asking isStepAccessible
onValueChangeUnchecked ==
    /\ \E value \in Steps :
          /\ value # currentStep
          /\ currentStep' = value
          /\ ShowStep(value, databaseSchema)
    /\ UNCHANGED <<appConnectionString, databaseSchema, appSelectedTables, pendingConnects,
                   connectsStarted, connectsDone, connectsAtProceed, sinceReset,
                   tabsRefused>>
    /\ UNCHANGED notWiz

\* onValueChange of the tab bar: a request for an accessible step sets the
\* step, a request for any other step sets nothing
onValueChange ==
    /\ \E value \in Steps :
          /\ value # currentStep
          /\ IF isStepAccessible(value)
             THEN /\ currentStep' = value
                  /\ ShowStep(value, databaseSchema)
                  /\ UNCHANGED tabsRefused
             ELSE /\ tabsRefused < MaxRefused
                  /\ tabsRefused' = tabsRefused + 1
                  /\ UNCHANGED <<currentStep, typed, isConnecting, explorerSelected>>
    /\ UNCHANGED <<appConnectionString, databaseSchema, appSelectedTables, pendingConnects,
                   connectsStarted, connectsDone, connectsAtProceed>>
    /\ UNCHANGED <<sinceReset, notWiz>>

\* handleReset, were it to leave the selection as it is
handleResetKeepsSelection ==
    /\ currentStep = "generation" /\ databaseSchema.present
    /\ currentStep' = "connection"
    /\ appConnectionString' = ""
    /\ databaseSchema' = NoSchema
    /\ UNCHANGED appSelectedTables
    /\ sinceReset' = TRUE
    /\ ShowStep("connection", NoSchema)
    /\ UNCHANGED <<pendingConnects, connectsStarted, connectsDone, connectsAtProceed,
                   tabsRefused>>
    /\ UNCHANGED notWiz

\* handleReset (onReset of the CodeGenerator, which is rendered on the
\* generation step while there is a snapshot)
handleReset ==
    /\ currentStep = "generation" /\ databaseSchema.present
    /\ currentStep' = "connection"
    /\ appConnectionString' = ""
    /\ databaseSchema' = NoSchema
    /\ appSelectedTables' = <<>>
    /\ sinceReset' = TRUE
    /\ ShowStep("connection", NoSchema)
    /\ UNCHANGED <<pendingConnects, connectsStarted, connectsDone, connectsAtProceed,
                   tabsRefused>>
    /\ UNCHANGED notWiz

WizNext ==
    \/ TypeConnectionString
    \/ handleTestConnection
    \/ ConnectionTimer
    \/ toggleTableSelection
    \/ selectAllTables
    \/ deselectAllTables
    \/ handleProceedToGeneration
    \/ onValueChange
    \/ handleReset

WizStart == WizInit /\ GenIdle /\ ApiIdle /\ PoolIdle /\ ParseIdle

SpecWizard == WizStart /\ [][WizNext]_vars

\* C19: whenever the generation step is shown, the CodeGenerator is rendered
\* with a selection that is not empty and whose names are all names of
\* tables of the current schema snapshot.
C19_GenerationSelectionWithinSnapshot ==
    currentStep = "generation" =>
        /\ databaseSchema.present
        /\ Len(appSelectedTables) > 0
        /\ \A i \in 1..Len(appSelectedTables) :
               Ticked(databaseSchema.tables, appSelectedTables[i])

\* the generation step shown after a re-connect, with the selection made
\* under the snapshot of the connect before
C19_Witness ==
    /\ currentStep = "generation"
    /\ connectsDone = 2 /\ connectsAtProceed = 1
    /\ appSelectedTables = <<"Order">>

\* GenNettaApp's state as constructed
WizardStateInitial ==
    /\ currentStep = "connection"
    /\ appConnectionString = ""
    /\ databaseSchema = NoSchema
    /\ appSelectedTables = <<>>

\* C20: a snapshot exists only once a connect has succeeded; from a reset up
\* to the next successful connect the wizard state is the initial one and
\* neither the schema step nor the generation step is accessible.
C20_ResetRestoresInitialState ==
    /\ databaseSchema.present => connectsDone > 0
    /\ sinceReset =>
          /\ WizardStateInitial
          /\ ~isStepAccessible("schema")
          /\ ~isStepAccessible("generation")

\* after a reset the user has typed a descriptor and started a connect
\* that has not yet succeeded
C20_Witness ==
    /\ sinceReset
    /\ connectsDone = 1
    /\ isConnecting /\ Trim(typed) # ""
    /\ pendingConnects # <<>>

\* C23: the schema step is shown only with a snapshot, the generation step
\* only with a snapshot and a non-empty selection; a tab-change request
\* that is refused changes nothing of the wizard.
C23_StepsOnlyWhenAccessible ==
    /\ [](currentStep = "schema" => databaseSchema.present)
    /\ [](currentStep = "generation" =>
              (databaseSchema.present /\ Len(appSelectedTables) > 0))
    /\ [][tabsRefused' # tabsRefused =>
              UNCHANGED <<currentStep, appConnectionString, databaseSchema,
                          appSelectedTables, typed, isConnecting, pendingConnects,
                          explorerSelected>>]_vars

\* on the schema step with nothing handed over yet, a request for the
\* generation step has been refused
C23_Witness ==
    /\ tabsRefused = 1
    /\ currentStep = "schema"
    /\ databaseSchema.present /\ appSelectedTables = <<>>

\* C24: while the wizard is on the generation step, a connect that completes
\* neither moves it off that step nor replaces the snapshot.
C24_LateConnectLeavesGenerationAlone ==
    [][(currentStep = "generation" /\ connectsDone' # connectsDone)
          => (currentStep' = "generation" /\ databaseSchema' = databaseSchema)]_vars

NoDuplicates(sel) == \A i, j \in 1..Len(sel) : sel[i] = sel[j] => i = j

\* C28: the selection of the SchemaExplorer holds no name twice and only
\* names of tables of the schema, and toggling any table twice gives back
\* the same selection in the same order.
C28_ToggleTwiceRestoresSelection ==
    (currentStep = "schema" /\ databaseSchema.present) =>
        /\ NoDuplicates(explorerSelected)
        /\ \A i \in 1..Len(explorerSelected) :
               Ticked(databaseSchema.tables, explorerSelected[i])
        /\ \A i \in 1..Len(databaseSchema.tables) :
               Toggled(Toggled(explorerSelected, databaseSchema.tables[i]),
                       databaseSchema.tables[i]) = explorerSelected

\* C29: no connect is started for a blank descriptor, at most one connect is
\* in flight, and the DatabaseConnection on screen shows isConnecting
\* exactly while a connect is in flight.
C29_OneConnectInFlight ==
    /\ \A i \in 1..Len(pendingConnects) : Trim(pendingConnects[i]) # ""
    /\ Len(pendingConnects) <= 1
    /\ currentStep = "connection" => (isConnecting <=> pendingConnects # <<>>)

====
